---- MODULE Spec2Model ----
(***************************************************************************)
(* A model of darts' SequentialDataset (utils/data/sequential_dataset.py)  *)
(* and of KalmanFilter.filter (models/filtering/kalman_filter.py).         *)
(*                                                                         *)
(* A TimeSeries is a record [len, start]: its values sit at positions      *)
(* 0..len-1 and position p carries the time stamp start + p (one common    *)
(* frequency).  An array slice is the sequence of the positions it holds,  *)
(* so both its length and its place in the series can be stated.           *)
(* An Optional value is None (the empty tuple) or Some(v) (a 1-tuple).     *)
(***************************************************************************)
EXTENDS Integers, Sequences, FiniteSets, TLC

\* ---- bounds of the explored inputs ----
\* series per dataset, series length, chunk lengths (0 included: __init__ does
\* not reject it), the max_samples_per_ts argument, time steps per filter()
\* call, and the range of the abstract Kalman state
MaxSeries == 2
MaxLen == 4
MaxChunk == 2
MaxCap == 2
MaxSteps == 2
KalmanModulus == 3

None == <<>>
Some(v) == <<v>>

\* ---- Python / numpy primitives used by the code ----

\* a // b on Python ints (floor division); b # 0
PyFloorDiv(a, b) ==
  IF b > 0 THEN a \div b ELSE (0 - a) \div (0 - b)

\* a % n on Python ints for n > 0 (result in 0..n-1)
PyMod(a, n) == a % n

\* the position a Python sequence of length n reads for index i, None if IndexError
PyListIndex(n, i) ==
  IF 0 <= i /\ i < n THEN Some(i)
  ELSE IF 0 - n <= i /\ i < 0 THEN Some(n + i)
  ELSE None

\* a slice bound b normalised against an array of length L
PySliceBound(L, b) ==
  IF b < 0 THEN (IF L + b < 0 THEN 0 ELSE L + b)
  ELSE IF b > L THEN L ELSE b

\* the positions lo, lo+1, ..., hi-1 as a sequence
Positions(lo, hi) ==
  IF hi > lo THEN [k \in 1..(hi - lo) |-> lo + k - 1] ELSE <<>>

\* values[start:stop] of an array of length L
PySlice(L, start, stop) ==
  Positions(PySliceBound(L, start), PySliceBound(L, stop))

\* values[start:] of an array of length L
PySliceFrom(L, start) ==
  Positions(PySliceBound(L, start), L)

\* max(len(ts) for ts in series)
MaxTsLen(series) ==
  CHOOSE m \in {series[k].len : k \in 1..Len(series)} :
    \A k \in 1..Len(series) : series[k].len <= m

\* ---- inputs ----
TargetSeries == [len : 1..MaxLen, start : {0}]
\* a covariate starts with its target or one step after it
CovariateStarts == {0, 1}
CovariateSeries == [len : 1..MaxLen, start : CovariateStarts]
TargetLists == UNION {[1..m -> TargetSeries] : m \in 1..MaxSeries}
CovariateLists ==
  UNION {{[k \in 1..m |-> c] : c \in CovariateSeries} : m \in 1..MaxSeries}
ChunkLengths == 0..MaxChunk
CapArgs == {None} \cup {Some(c) : c \in 1..MaxCap}

VARIABLES
  ds_pc,                \* "unconstructed", "constructed" or "raised"
  target_series,        \* self.target_series
  covariates,           \* self.covariates: None or Some(list)
  input_chunk_length,   \* self.input_chunk_length
  output_chunk_length,  \* self.output_chunk_length
  max_samples_per_ts,   \* self.max_samples_per_ts
  ideal_nr_samples,     \* self.ideal_nr_samples
  cap_arg,              \* the max_samples_per_ts argument of __init__
  call                  \* the last __len__ / __getitem__ call and what it gave

ds_vars == <<ds_pc, target_series, covariates, input_chunk_length,
             output_chunk_length, max_samples_per_ts, ideal_nr_samples,
             cap_arg, call>>

NoCall == [op |-> "none"]

VARIABLES
  kf_provided,     \* self.kf_provided
  dim_y,           \* self.dim_y
  self_kf,         \* self.kf: None while the attribute is not set, else Some(ref)
  heap,            \* the Kalman objects alive, by reference
  fpc,             \* "idle", or "loop" while filter() runs its for loop
  fargs,           \* the arguments of the running filter() call
  kf,              \* the local variable kf of filter(): None or Some(ref)
  i,               \* the loop index of filter()
  sampled_states,  \* the local array sampled_states of filter()
  last,            \* the last fit() / filter() call that ended, and how
  returned_calls,  \* filter() calls that returned since __init__ / fit(): 0, 1, 2 = more
  fitted           \* the stored filter as __init__ / fit() left it

kf_vars == <<kf_provided, dim_y, self_kf, heap, fpc, fargs, kf, i,
             sampled_states, last, returned_calls, fitted>>

vars == <<ds_vars, kf_vars>>

\* ---- SequentialDataset.__init__ ----

\* the raise_if_not of __init__: covariates is None or the lists agree in length
InitCheck(ts, cov) == IF cov = None THEN TRUE ELSE Len(ts) = Len(cov[1])

\* self.max_samples_per_ts after __init__
InitMaxSamples(ts, in_len, out_len, cap) ==
  IF cap = None THEN MaxTsLen(ts) - out_len - in_len + 1 ELSE cap[1]

Construct ==
  /\ ds_pc = "unconstructed"
  /\ \E ts \in TargetLists, cov \in {None} \cup {Some(c) : c \in CovariateLists},
        in_len \in ChunkLengths, out_len \in ChunkLengths, cap \in CapArgs :
       /\ InitCheck(ts, cov)
       /\ ds_pc' = "constructed"
       /\ target_series' = ts
       /\ covariates' = cov
       /\ input_chunk_length' = in_len
       /\ output_chunk_length' = out_len
       /\ cap_arg' = cap
       /\ max_samples_per_ts' = InitMaxSamples(ts, in_len, out_len, cap)
       /\ ideal_nr_samples' = Len(ts) * InitMaxSamples(ts, in_len, out_len, cap)
  /\ UNCHANGED <<call, kf_vars>>

ConstructRaises ==
  /\ ds_pc = "unconstructed"
  /\ \E ts \in TargetLists, cov \in {Some(c) : c \in CovariateLists} :
       ~InitCheck(ts, cov)
  /\ ds_pc' = "raised"
  /\ UNCHANGED <<target_series, covariates, input_chunk_length,
                 output_chunk_length, max_samples_per_ts, ideal_nr_samples,
                 cap_arg, call, kf_vars>>

\* ---- SequentialDataset.__len__ ----
LenCall ==
  /\ ds_pc = "constructed"
  /\ call' = [op |-> "len", result |-> ideal_nr_samples]
  /\ UNCHANGED <<ds_pc, target_series, covariates, input_chunk_length,
                 output_chunk_length, max_samples_per_ts, ideal_nr_samples,
                 cap_arg, kf_vars>>

\* ---- SequentialDataset.__getitem__ ----

\* ts_idx = idx // self.max_samples_per_ts
TsIdx(idx) == PyFloorDiv(idx, max_samples_per_ts)

\* mutant of NSamplesInTs: the output window is forgotten
NSamplesInTs_NoOutput(L) == L - input_chunk_length + 1

\* n_samples_in_ts = len(target_values) - input_chunk_length - output_chunk_length + 1
NSamplesInTs(L) == L - input_chunk_length - output_chunk_length + 1

\* the condition of the raise_if_not on n_samples_in_ts
LongEnough(n) == n >= 1

\* mutant of LhIdx: the modulo is forgotten
LhIdx_NoModulo(idx, ts_idx, n) == idx - (ts_idx * max_samples_per_ts)

\* lh_idx = (idx - (ts_idx * self.max_samples_per_ts)) % n_samples_in_ts
LhIdx(idx, ts_idx, n) == PyMod(idx - (ts_idx * max_samples_per_ts), n)

\* mutant of ForecastPointIdx: the offset counts from the end of the series
ForecastPointIdx_FromEnd(lh_idx) == lh_idx

\* forecast_point_idx = self.output_chunk_length + lh_idx
ForecastPointIdx(lh_idx) == output_chunk_length + lh_idx

\* input_target = target_values[-(forecast_point_idx + input_chunk_length):-forecast_point_idx]
InputTarget(L, f) == PySlice(L, 0 - (f + input_chunk_length), 0 - f)

\* output_target, with the branch that avoids "-0" as the upper bound
OutputTarget(L, f) ==
  IF f = output_chunk_length
    THEN PySliceFrom(L, 0 - f)
    ELSE PySlice(L, 0 - f, (0 - f) + output_chunk_length)

\* _get_matching_index(ts_target, ts_covariate, idx): the covariate's offset from
\* its end whose time stamp equals the target's time stamp at offset idx from the
\* target's end; None when the covariate has no entry with that time stamp.
GetMatchingIndex(ts_target, ts_covariate, idx) ==
  LET stamp == ts_target.start + (ts_target.len - idx)
      pos == stamp - ts_covariate.start
  IN  IF 0 <= pos /\ pos < ts_covariate.len
        THEN Some(ts_covariate.len - pos)
        ELSE None

\* input_covariate = covariate_values[-(cov_fcast_idx + input_chunk_length):-cov_fcast_idx]
\* (a slice never raises IndexError, so the except branch is never taken)
InputCovariate(Lc, c) == PySlice(Lc, 0 - (c + input_chunk_length), 0 - c)

Raised(idx, kind, locals) ==
  [op |-> "getitem", idx |-> idx, outcome |-> kind, locals |-> locals,
   returned |-> None]

\* the whole of __getitem__(idx): the exception it raises or the tuple it returns
GetItem(idx) ==
  IF max_samples_per_ts = 0 THEN Raised(idx, "ZeroDivisionError", [idx |-> idx])
  ELSE
  LET ts_idx == TsIdx(idx)
      at == PyListIndex(Len(target_series), ts_idx)
  IN
  IF at = None THEN Raised(idx, "IndexError", [ts_idx |-> ts_idx])
  ELSE
  LET ts_target == target_series[at[1] + 1]
      L == ts_target.len
      n_samples_in_ts == NSamplesInTs(L)
  IN
  IF ~LongEnough(n_samples_in_ts)
    THEN Raised(idx, "ValueError",
                [ts_idx |-> ts_idx, n_samples_in_ts |-> n_samples_in_ts])
  ELSE
  LET lh_idx == LhIdx(idx, ts_idx, n_samples_in_ts)
      forecast_point_idx == ForecastPointIdx(lh_idx)
      input_target == InputTarget(L, forecast_point_idx)
      output_target == OutputTarget(L, forecast_point_idx)
      locals == [ts_idx |-> ts_idx, n_samples_in_ts |-> n_samples_in_ts,
                 lh_idx |-> lh_idx, forecast_point_idx |-> forecast_point_idx,
                 len |-> L]
  IN
  IF covariates = None
    THEN [op |-> "getitem", idx |-> idx, outcome |-> "ok", locals |-> locals,
          returned |-> Some([input_target |-> input_target,
                             output_target |-> output_target,
                             input_covariate |-> None])]
  ELSE
  LET ts_covariate == covariates[1][at[1] + 1]
      cov_fcast_idx == GetMatchingIndex(ts_target, ts_covariate, forecast_point_idx)
  IN
  IF cov_fcast_idx = None THEN Raised(idx, "AlignmentError", locals)
  ELSE
    [op |-> "getitem", idx |-> idx, outcome |-> "ok",
     locals |-> [ts_idx |-> ts_idx, n_samples_in_ts |-> n_samples_in_ts,
                 lh_idx |-> lh_idx, forecast_point_idx |-> forecast_point_idx,
                 len |-> L, cov_len |-> ts_covariate.len,
                 cov_fcast_idx |-> cov_fcast_idx[1]],
     returned |-> Some([input_target |-> input_target,
                        output_target |-> output_target,
                        input_covariate |->
                          Some(InputCovariate(ts_covariate.len, cov_fcast_idx[1]))])]

\* the flat indexes a caller tries: all of [0, len) and the first one past it
FlatIndexes == 0..(IF ideal_nr_samples > 0 THEN ideal_nr_samples ELSE 0)

GetItemCall ==
  /\ ds_pc = "constructed"
  /\ \E idx \in FlatIndexes : call' = GetItem(idx)
  /\ UNCHANGED <<ds_pc, target_series, covariates, input_chunk_length,
                 output_chunk_length, max_samples_per_ts, ideal_nr_samples,
                 cap_arg, kf_vars>>

DsInit ==
  /\ ds_pc = "unconstructed"
  /\ target_series = None
  /\ covariates = None
  /\ input_chunk_length = None
  /\ output_chunk_length = None
  /\ max_samples_per_ts = None
  /\ ideal_nr_samples = None
  /\ cap_arg = None
  /\ call = NoCall

\* ---- KalmanFilter ----

\* the reference of the object self.kf names, and of the copy filter() works on
StoredRef == 1
CopyRef == 2
StateSpaces == 1..2
Observations == {0, 1}

\* Kalman(state_space, covariance): a filter that has not stepped yet
NewKalman(ss) == [state_space |-> ss, x |-> 0, y_filtered |-> None]

\* kf.step(y, u): the recursive state advances with the observation and the
\* input, and the filtered output of this step is appended (kept: the last one)
KalmanStep(obj, y, u) ==
  LET x == (obj.state_space * obj.x + y + u + 1) % KalmanModulus
  IN  [obj EXCEPT !.x = x, !.y_filtered = Some(x)]

\* mutant of DeepCopyRef: kf = self.kf, the stored object itself
DeepCopyRef_Alias(ref) == ref

\* kf = deepcopy(self.kf): the reference of the object kf names afterwards
DeepCopyRef(ref) == CopyRef

\* the heap once the object at ref is no longer named by a local variable
Release(h, ref) == IF self_kf = Some(ref) THEN h ELSE [h EXCEPT ![ref] = None]

\* the series filter() and fit() are given
ObservedSeries ==
  [values : UNION {[1..n -> Observations] : n \in 1..MaxSteps},
   is_deterministic : BOOLEAN, width : 1..2]
FilterCovariates ==
  {None} \cup {Some([k \in 1..n |-> 1]) : n \in 1..MaxSteps}
NumSamples == 1..2

\* KalmanFilter.__init__ has run: with kf given, or with dim_x / dim_y only
KfInit ==
  /\ kf_provided \in BOOLEAN
  /\ dim_y = 1
  /\ \E ss \in StateSpaces :
       /\ self_kf = IF kf_provided THEN Some(StoredRef) ELSE None
       /\ heap = [r \in {StoredRef, CopyRef} |->
                   IF kf_provided /\ r = StoredRef THEN Some(NewKalman(ss)) ELSE None]
       /\ fitted = IF kf_provided THEN Some(NewKalman(ss)) ELSE None
  /\ fpc = "idle"
  /\ fargs = None
  /\ kf = None
  /\ i = 0
  /\ sampled_states = <<>>
  /\ last = [op |-> "init"]
  /\ returned_calls = 0

\* fit(): the identification gives a state space and self.kf = Kalman(...)
Fit ==
  /\ fpc = "idle"
  /\ \E ss \in StateSpaces :
       /\ self_kf' = Some(StoredRef)
       /\ heap' = [heap EXCEPT ![StoredRef] = Some(NewKalman(ss))]
       /\ fitted' = Some(NewKalman(ss))
  /\ last' = [op |-> "fit", outcome |-> "ok"]
  /\ returned_calls' = 0
  /\ UNCHANGED <<kf_provided, dim_y, fpc, fargs, kf, i, sampled_states, ds_vars>>

\* fit(): the identification step raises; its error propagates
FitRaises ==
  /\ fpc = "idle"
  /\ last' = [op |-> "fit", outcome |-> "raised"]
  /\ UNCHANGED <<kf_provided, dim_y, self_kf, heap, fpc, fargs, kf, i,
                 sampled_states, returned_calls, fitted, ds_vars>>

\* the exception filter() raises before its loop, None if it raises none
FilterEntryError(series) ==
  IF ~series.is_deterministic THEN Some("ValueError")
  ELSE IF kf_provided /\ series.width # dim_y THEN Some("ValueError")
  ELSE IF self_kf = None THEN Some("AttributeError")
  ELSE None

\* np.zeros((len(y_values), dim_y)) or np.zeros((len(y_values), dim_y, num_samples))
Zeros(n, num_samples) ==
  [k \in 1..n |-> IF num_samples = 1 THEN 0 ELSE [m \in 1..num_samples |-> 0]]

\* filter() up to its for loop (super().filter(series) keeps no state here)
FilterBegin ==
  /\ fpc = "idle"
  /\ \E series \in ObservedSeries, cov \in FilterCovariates, num_samples \in NumSamples :
       /\ FilterEntryError(series) = None
       /\ fargs' = Some([series |-> series, covariates |-> cov,
                         num_samples |-> num_samples])
       /\ kf' = Some(DeepCopyRef(self_kf[1]))
       /\ heap' = [heap EXCEPT ![DeepCopyRef(self_kf[1])] = heap[self_kf[1]]]
       /\ sampled_states' = Zeros(Len(series.values), num_samples)
  /\ i' = 0
  /\ fpc' = "loop"
  /\ last' = [op |-> "filter", outcome |-> "running"]
  /\ UNCHANGED <<kf_provided, dim_y, self_kf, returned_calls, fitted, ds_vars>>

\* filter() raising before its loop
FilterRaises ==
  /\ fpc = "idle"
  /\ \E series \in ObservedSeries :
       /\ FilterEntryError(series) # None
       /\ last' = [op |-> "filter", outcome |-> FilterEntryError(series)[1]]
  /\ UNCHANGED <<kf_provided, dim_y, self_kf, heap, fpc, fargs, kf, i,
                 sampled_states, returned_calls, fitted, ds_vars>>

\* the exception an iteration of the loop raises, None if it raises none:
\* u_values[i] past the end of the covariates, or a reshape to the wrong width
StepError ==
  IF fargs[1].covariates # None /\ i >= Len(fargs[1].covariates[1])
    THEN Some("IndexError")
  ELSE IF fargs[1].series.width # dim_y THEN Some("ValueError")
  ELSE None

\* the draws of np.random.multivariate_normal around mean_vec
Draws(mean_vec, num_samples) ==
  [1..num_samples -> {mean_vec, (mean_vec + 1) % KalmanModulus}]

\* one iteration of the for loop of filter()
FilterStep ==
  /\ fpc = "loop"
  /\ i < Len(fargs[1].series.values)
  /\ StepError = None
  /\ LET y == fargs[1].series.values[i + 1]
         u == IF fargs[1].covariates = None THEN 0 ELSE fargs[1].covariates[1][i + 1]
         stepped == KalmanStep(heap[kf[1]][1], y, u)
         mean_vec == stepped.y_filtered[1]
     IN  /\ heap' = [heap EXCEPT ![kf[1]] = Some(stepped)]
         /\ IF fargs[1].num_samples = 1
              THEN sampled_states' = [sampled_states EXCEPT ![i + 1] = mean_vec]
              ELSE \E d \in Draws(mean_vec, fargs[1].num_samples) :
                     sampled_states' = [sampled_states EXCEPT ![i + 1] = d]
  /\ i' = i + 1
  /\ UNCHANGED <<kf_provided, dim_y, self_kf, fpc, fargs, kf, last,
                 returned_calls, fitted, ds_vars>>

\* an iteration of the loop raises: filter() ends without a result
FilterStepRaises ==
  /\ fpc = "loop"
  /\ i < Len(fargs[1].series.values)
  /\ StepError # None
  /\ last' = [op |-> "filter", outcome |-> StepError[1]]
  /\ heap' = Release(heap, kf[1])
  /\ fpc' = "idle"
  /\ fargs' = None
  /\ kf' = None
  /\ i' = 0
  /\ sampled_states' = <<>>
  /\ UNCHANGED <<kf_provided, dim_y, self_kf, returned_calls, fitted, ds_vars>>

\* return TimeSeries.from_times_and_values(series.time_index, sampled_states)
FilterReturn ==
  /\ fpc = "loop"
  /\ i = Len(fargs[1].series.values)
  /\ last' = [op |-> "filter", outcome |-> "ok",
               series |-> fargs[1].series,
               covariates |-> fargs[1].covariates,
               num_samples |-> fargs[1].num_samples,
               values |-> sampled_states]
  /\ returned_calls' = IF returned_calls = 0 THEN 1 ELSE 2
  /\ heap' = Release(heap, kf[1])
  /\ fpc' = "idle"
  /\ fargs' = None
  /\ kf' = None
  /\ i' = 0
  /\ sampled_states' = <<>>
  /\ UNCHANGED <<kf_provided, dim_y, self_kf, fitted, ds_vars>>

\* ---- the specifications ----

\* the dataset, next to an estimator nobody calls
Init == DsInit /\ KfInit /\ kf_provided = FALSE
Next == Construct \/ ConstructRaises \/ LenCall \/ GetItemCall
Spec == Init /\ [][Next]_vars

\* the estimator, next to a dataset nobody constructs
KfNext ==
  \/ Fit \/ FitRaises \/ FilterBegin \/ FilterRaises
  \/ FilterStep \/ FilterStepRaises \/ FilterReturn
InitKF == DsInit /\ KfInit
SpecKF == InitKF /\ [][KfNext]_vars

\* ======================= SequentialDataset: the claims =======================

NSeries == Len(target_series)

\* EffectiveCapacity as the specification defines it, from the constructor's inputs
EffectiveCapacity ==
  IF cap_arg = None
    THEN MaxTsLen(target_series) - output_chunk_length - input_chunk_length + 1
    ELSE cap_arg[1]

\* the number of real samples of the series with (0-based) index s
RealSamples(s) ==
  target_series[s + 1].len - input_chunk_length - output_chunk_length + 1

IsGet == ds_pc = "constructed" /\ call.op = "getitem"

\* the call got as far as reading target_series[ts_idx]
Resolved == IsGet /\ call.outcome \notin {"ZeroDivisionError", "IndexError"}

\* the call got as far as computing its forecast point
Located == IsGet /\ call.outcome \in {"ok", "AlignmentError"}

Min(a, b) == IF a < b THEN a ELSE b

\* C1: with EffectiveCapacity C >= 1, every flat index in [0, N*C) resolves to
\* series_index = flat_index // C with 0 <= series_index < N, and when that
\* series has n >= 1 samples, to local_index = (flat_index - series_index*C) mod n
\* with 0 <= local_index < n.
C1_IndexResolution ==
  (IsGet /\ EffectiveCapacity >= 1
     /\ call.idx \in 0..(NSeries * EffectiveCapacity - 1)) =>
    LET s == call.idx \div EffectiveCapacity
        n == RealSamples(s)
    IN  /\ 0 <= s /\ s < NSeries
        /\ Resolved
        /\ call.locals.ts_idx = s
        /\ n >= 1 =>
             /\ Located
             /\ call.locals.n_samples_in_ts = n
             /\ call.locals.lh_idx = (call.idx - s * EffectiveCapacity) % n
             /\ 0 <= call.locals.lh_idx /\ call.locals.lh_idx < n

\* C1 witness: with positive chunk lengths, a flat index resolved to the second
\* series and to a local index other than 0
C1_Witness ==
  /\ IsGet /\ call.outcome = "ok"
  /\ input_chunk_length >= 1 /\ output_chunk_length >= 1
  /\ call.idx < NSeries * EffectiveCapacity
  /\ call.locals.ts_idx = 1
  /\ call.locals.lh_idx >= 1

\* the flat indexes of [0, __len__()) that resolve to series s
FlatIndexesOf(s) == {a \in 0..(ideal_nr_samples - 1) : TsIdx(a) = s}

\* both chunk lengths are positive, as the specification requires of a WindowConfig
PositiveChunks == input_chunk_length >= 1 /\ output_chunk_length >= 1

\* C2: __len__ returns N * EffectiveCapacity and every series index in [0, N) is
\* resolved from exactly EffectiveCapacity distinct flat indexes of [0, __len__()).
C2_Uniformity ==
  (ds_pc = "constructed" /\ PositiveChunks) =>
    /\ call.op = "len" => call.result = NSeries * EffectiveCapacity
    /\ \A s \in 0..(NSeries - 1) :
         Cardinality(FlatIndexesOf(s)) = EffectiveCapacity

\* C3: every __getitem__ that returns gives a past_target of input_chunk_length
\* rows and a future_target of output_chunk_length rows.  (Stated for the
\* datasets that ask for a past window, input_chunk_length >= 1.)
C3_WindowLengths ==
  (IsGet /\ call.outcome = "ok" /\ input_chunk_length >= 1) =>
    /\ Len(call.returned[1].input_target) = input_chunk_length
    /\ Len(call.returned[1].output_target) = output_chunk_length

\* C4: with L the series' length and f = output_chunk_length + local_index,
\* __getitem__ returns past_target = positions [L-f-input_chunk_length, L-f) and
\* future_target = positions [L-f, L-f+output_chunk_length); local index 0 gives
\* the last output_chunk_length positions as future_target.  (Stated for the
\* datasets that ask for a past window, input_chunk_length >= 1.)
C4_SlicePositions ==
  (IsGet /\ call.outcome = "ok" /\ input_chunk_length >= 1) =>
    LET L == call.locals.len
        f == output_chunk_length + call.locals.lh_idx
    IN  /\ call.locals.forecast_point_idx = f
        /\ call.returned[1].input_target
             = Positions(L - f - input_chunk_length, L - f)
        /\ call.returned[1].output_target
             = Positions(L - f, L - f + output_chunk_length)
        /\ call.locals.lh_idx = 0 =>
             call.returned[1].output_target
               = Positions(L - output_chunk_length, L)

\* the forecast-point offset __getitem__ computes for flat index a of series s
OffsetOf(a, s) ==
  ForecastPointIdx(LhIdx(a, s, NSamplesInTs(target_series[s + 1].len)))

\* the forecast-point offsets the flat indexes of series s resolve to
OffsetsReached(s) ==
  IF LongEnough(NSamplesInTs(target_series[s + 1].len))
    THEN {OffsetOf(a, s) : a \in FlatIndexesOf(s)}
    ELSE {}

\* C5: the flat indexes of a series with n real samples reach exactly the
\* offsets output_chunk_length + k, 0 <= k < min(EffectiveCapacity, n); when
\* n > EffectiveCapacity each of them is reached by one flat index only.
C5_CappingAndAliasing ==
  (ds_pc = "constructed" /\ max_samples_per_ts # 0) =>
    /\ \A s \in 0..(NSeries - 1) :
         LET n == RealSamples(s) IN
         /\ OffsetsReached(s)
              = {output_chunk_length + k : k \in 0..(Min(EffectiveCapacity, n) - 1)}
         /\ n > EffectiveCapacity =>
              \A a, b \in FlatIndexesOf(s) : a # b => OffsetOf(a, s) # OffsetOf(b, s)
    /\ (Located /\ call.idx < ideal_nr_samples) =>
         /\ call.locals.forecast_point_idx = OffsetOf(call.idx, call.locals.ts_idx)
         /\ call.locals.forecast_point_idx \in OffsetsReached(call.locals.ts_idx)

\* C5 witness: a slot beyond the real samples of its series was read and came
\* back as one of the real samples, in a dataset that also caps another series
C5_Witness ==
  /\ IsGet /\ call.outcome = "ok"
  /\ input_chunk_length >= 1 /\ output_chunk_length >= 1
  /\ call.idx - call.locals.ts_idx * max_samples_per_ts
       >= call.locals.n_samples_in_ts
  /\ call.locals.forecast_point_idx
       < output_chunk_length + call.locals.n_samples_in_ts
  /\ \E s \in 0..(NSeries - 1) : RealSamples(s) > max_samples_per_ts

\* C6: a flat index that resolves to a series shorter than input_chunk_length +
\* output_chunk_length fails and returns nothing; one that resolves to a series
\* that is long enough never fails for that reason, and returns a sample when
\* no covariates are configured.
C6_TooShortRejected ==
  (Resolved /\ call.locals.ts_idx \in 0..(NSeries - 1)) =>
    LET L == target_series[call.locals.ts_idx + 1].len IN
    /\ L < input_chunk_length + output_chunk_length =>
         call.outcome = "ValueError" /\ call.returned = None
    /\ L >= input_chunk_length + output_chunk_length =>
         /\ call.outcome # "ValueError"
         /\ covariates = None => call.outcome = "ok" /\ call.returned # None

\* C6 witness: the call on a too-short series raised while the dataset holds
\* another series that is long enough
C6_Witness ==
  /\ IsGet /\ call.outcome = "ValueError" /\ call.returned = None
  /\ input_chunk_length >= 1 /\ output_chunk_length >= 1
  /\ \E s \in 0..(NSeries - 1) : RealSamples(s) >= 1

\* C7: with max_samples_per_ts = None and the longest series shorter than
\* input_chunk_length + output_chunk_length construction fails, so a constructed
\* dataset has EffectiveCapacity >= 1 and a positive __len__.  (Stated for
\* positive chunk lengths.)
C7_FailFastConstruction ==
  (ds_pc = "constructed" /\ cap_arg = None /\ PositiveChunks) =>
    /\ MaxTsLen(target_series) >= input_chunk_length + output_chunk_length
    /\ max_samples_per_ts >= 1
    /\ ideal_nr_samples >= 1

\* C8: construction fails unless both chunk lengths are positive, so no dataset
\* exists, and no __getitem__ runs, with a non-positive chunk length.
C8_ChunkLengthsValidated ==
  (ds_pc = "constructed" /\ call.op = "getitem") => PositiveChunks

\* C9: with covariates configured, a __getitem__ that returns gives a
\* past_covariate of input_chunk_length rows; when the covariate is shorter than
\* covariate offset + input_chunk_length, or the offset is <= 0, it fails.
\* (Stated for positive chunk lengths.)
C9_CovariateWindow ==
  (IsGet /\ covariates # None /\ call.outcome = "ok" /\ PositiveChunks) =>
    /\ Len(call.returned[1].input_covariate[1]) = input_chunk_length
    /\ call.locals.cov_len >= call.locals.cov_fcast_idx + input_chunk_length
    /\ call.locals.cov_fcast_idx > 0

\* ========================= KalmanFilter: the claim =========================

\* the filtered means a filter in state obj gives for observations k, k+1, ...
RECURSIVE MeansFrom(_, _, _, _)
MeansFrom(obj, ys, cov, k) ==
  IF k > Len(ys) THEN <<>>
  ELSE LET stepped == KalmanStep(obj, ys[k], IF cov = None THEN 0 ELSE cov[1][k])
       IN  <<stepped.y_filtered[1]>> \o MeansFrom(stepped, ys, cov, k + 1)

\* C10: filter() steps a private copy only: the stored filter stays as __init__ /
\* fit() left it, every filter() call starts its loop from that state on an
\* object of its own, and a call with num_samples = 1 returns one entry per time
\* step, in input order, that depends on the fitted filter and the series only
\* (so two such calls on the same series return the same output).
C10_FilterIsolation ==
  /\ IF self_kf = None THEN fitted = None ELSE heap[self_kf[1]] = fitted
  /\ (fpc = "loop" /\ i = 0) => (kf # self_kf /\ heap[kf[1]] = fitted)
  /\ (last.op = "filter" /\ last.outcome = "ok") =>
       /\ Len(last.values) = Len(last.series.values)
       /\ last.num_samples = 1 =>
            last.values = MeansFrom(fitted[1], last.series.values,
                                    last.covariates, 1)

\* C10 witness: a second (or later) filter() call since the fit returned, over
\* more than one time step and with num_samples = 1
C10_Witness ==
  /\ fpc = "idle" /\ last.op = "filter" /\ last.outcome = "ok"
  /\ last.num_samples = 1
  /\ Len(last.values) >= 2
  /\ returned_calls = 2

====
